---- MODULE Spec2Model ----
(***************************************************************************)
(* ClasSync extraction-quality pipeline (src/server.js) checked against    *)
(* the canonical catalog (src/curriculum-reference.js).                    *)
(*                                                                         *)
(* A JavaScript string is a sequence of one-character strings, so that     *)
(* toUpperCase, toLowerCase, trim and replace(/\s+/g, "") are computed     *)
(* character by character.  "LONG_S" stands for U+017F (LATIN SMALL LETTER *)
(* LONG S), whose upper case is "S" and whose lower case is itself.        *)
(* A message is the sequence of its pieces, a number as its digits.        *)
(***************************************************************************)
EXTENDS Integers, Sequences, FiniteSets, TLC

VARIABLES pc, files, apiKey, disk, replies, imageResults, allSubjects,
          uniqueSubjects, overallValidation, sent, call, returned

vars == <<pc, files, apiKey, disk, replies, imageResults, allSubjects,
          uniqueSubjects, overallValidation, sent, call, returned>>

(***************************************************************************)
(* Bounds of the model.                                                    *)
(***************************************************************************)
\* largest number of trailing entries the recognizer omits from a year block
MaxDrop == 3
\* largest number of entries outside the catalog the recognizer adds
MaxJunk == 2
\* longest text of the recognizer that sendToGroq is called on
MaxTextLen == 5

(***************************************************************************)
(* Strings.                                                                *)
(***************************************************************************)
LowerLetters == <<"a", "b", "c", "d", "e", "f", "g", "h", "i", "j", "k", "l", "m",
                  "n", "o", "p", "q", "r", "s", "t", "u", "v", "w", "x", "y", "z">>
UpperLetters == <<"A", "B", "C", "D", "E", "F", "G", "H", "I", "J", "K", "L", "M",
                  "N", "O", "P", "Q", "R", "S", "T", "U", "V", "W", "X", "Y", "Z">>
Digits == <<"0", "1", "2", "3", "4", "5", "6", "7", "8", "9">>
\* the characters matched by \s that the model uses
Whitespace == {" ", "\t"}

IndexOf(c, s) == CHOOSE i \in 1..Len(s) : s[i] = c
InSeq(c, s) == \E i \in 1..Len(s) : s[i] = c

\* String.prototype.toUpperCase, one character
UpperChar(c) ==
  IF InSeq(c, LowerLetters) THEN UpperLetters[IndexOf(c, LowerLetters)]
  ELSE IF c = "LONG_S" THEN "S"
  ELSE c

\* String.prototype.toLowerCase, one character
LowerChar(c) ==
  IF InSeq(c, UpperLetters) THEN LowerLetters[IndexOf(c, UpperLetters)]
  ELSE c

toUpperCase(s) == [i \in 1..Len(s) |-> UpperChar(s[i])]
toLowerCase(s) == [i \in 1..Len(s) |-> LowerChar(s[i])]

\* s.replace(/\s+/g, "")
RECURSIVE removeWhitespace(_)
removeWhitespace(s) ==
  IF s = <<>> THEN <<>>
  ELSE IF Head(s) \in Whitespace THEN removeWhitespace(Tail(s))
  ELSE <<Head(s)>> \o removeWhitespace(Tail(s))

RECURSIVE trimStart(_)
trimStart(s) ==
  IF s # <<>> /\ Head(s) \in Whitespace THEN trimStart(Tail(s)) ELSE s

RECURSIVE trimEnd(_)
trimEnd(s) ==
  IF s # <<>> /\ s[Len(s)] \in Whitespace
  THEN trimEnd(SubSeq(s, 1, Len(s) - 1)) ELSE s

\* String.prototype.trim
trim(s) == trimEnd(trimStart(s))

\* String(n) for a natural number n
RECURSIVE NumberToString(_)
NumberToString(n) ==
  IF n < 10 THEN <<Digits[n + 1]>>
  ELSE NumberToString(n \div 10) \o <<Digits[(n % 10) + 1]>>

\* parseInt(s): optional white space, optional sign, then the leading digits;
\* NaN when there is no digit.  NaN is modelled as -1 behind the flag isNaN.
RECURSIVE LeadingDigits(_, _)
LeadingDigits(s, acc) ==
  IF s # <<>> /\ InSeq(Head(s), Digits)
  THEN LeadingDigits(Tail(s), acc * 10 + (IndexOf(Head(s), Digits) - 1))
  ELSE acc

parseInt(s) ==
  LET t == trimStart(s)
      neg == t # <<>> /\ Head(t) = "-"
      u == IF t # <<>> /\ Head(t) \in {"-", "+"} THEN Tail(t) ELSE t
  IN IF u = <<>> \/ ~InSeq(Head(u), Digits)
     THEN [isNaN |-> TRUE, value |-> 0]
     ELSE [isNaN |-> FALSE,
           value |-> IF neg THEN 0 - LeadingDigits(u, 0) ELSE LeadingDigits(u, 0)]

\* parseInt(x) || 0
parseIntOrZero(s) == IF parseInt(s).isNaN THEN 0 ELSE parseInt(s).value

(***************************************************************************)
(* The canonical catalog, in the key order of the object literal.          *)
(***************************************************************************)
CURRICULUM_REFERENCE ==
  <<
     [key |-> <<"C", "S", " ", "1", "0", "1">>,
      name |-> "Introduction to Computing",
      lecUnits |-> 3, labUnits |-> 0, units |-> 3,
      yearLevel |-> "1st Year", semester |-> "1st Semester"],
     [key |-> <<"C", "S", " ", "1", "0", "2">>,
      name |-> "Computer Programming 1 (Fundamentals of Programming)",
      lecUnits |-> 2, labUnits |-> 1, units |-> 3,
      yearLevel |-> "1st Year", semester |-> "1st Semester"],
     [key |-> <<"M", "a", "t", "h", " ", "1", "0", "1">>,
      name |-> "Mathematical Analysis 1",
      lecUnits |-> 5, labUnits |-> 0, units |-> 5,
      yearLevel |-> "1st Year", semester |-> "1st Semester"],
     [key |-> <<"P", "h", "y", "s", " ", "1">>,
      name |-> "Physics for Computing",
      lecUnits |-> 3, labUnits |-> 0, units |-> 3,
      yearLevel |-> "1st Year", semester |-> "1st Semester"],
     [key |-> <<"G", "E", "C", " ", "1", "1">>,
      name |-> "Understanding the Self",
      lecUnits |-> 3, labUnits |-> 0, units |-> 3,
      yearLevel |-> "1st Year", semester |-> "1st Semester"],
     [key |-> <<"P", "A", "T", "H", "F", "I", "T", " ", "1">>,
      name |-> "Movement Competency Training",
      lecUnits |-> 2, labUnits |-> 0, units |-> 2,
      yearLevel |-> "1st Year", semester |-> "1st Semester"],
     [key |-> <<"N", "S", "T", "P", " ", "1", "1">>,
      name |-> "LTS/CWTS/ROTC",
      lecUnits |-> 3, labUnits |-> 0, units |-> 3,
      yearLevel |-> "1st Year", semester |-> "1st Semester"],
     [key |-> <<"C", "S", " ", "1", "0", "3">>,
      name |-> "Computer Programming 2 (Intermediate Programming)",
      lecUnits |-> 2, labUnits |-> 1, units |-> 3,
      yearLevel |-> "1st Year", semester |-> "2nd Semester"],
     [key |-> <<"C", "S", " ", "1", "0", "7">>,
      name |-> "Digital System Design",
      lecUnits |-> 2, labUnits |-> 1, units |-> 3,
      yearLevel |-> "1st Year", semester |-> "2nd Semester"],
     [key |-> <<"M", "a", "t", "h", " ", "1", "0", "2">>,
      name |-> "Mathematical Analysis 2",
      lecUnits |-> 5, labUnits |-> 0, units |-> 5,
      yearLevel |-> "1st Year", semester |-> "2nd Semester"],
     [key |-> <<"G", "E", "C", " ", "1", "2">>,
      name |-> "Readings in the Philippine History",
      lecUnits |-> 3, labUnits |-> 0, units |-> 3,
      yearLevel |-> "1st Year", semester |-> "2nd Semester"],
     [key |-> <<"G", "E", "C", " ", "1", "3">>,
      name |-> "The Contemporary World",
      lecUnits |-> 3, labUnits |-> 0, units |-> 3,
      yearLevel |-> "1st Year", semester |-> "2nd Semester"],
     [key |-> <<"P", "A", "T", "H", "F", "I", "T", " ", "2">>,
      name |-> "Exercise-based Fitness Activities",
      lecUnits |-> 2, labUnits |-> 0, units |-> 2,
      yearLevel |-> "1st Year", semester |-> "2nd Semester"],
     [key |-> <<"N", "S", "T", "P", " ", "2">>,
      name |-> "LTS/CWTS/ROTC",
      lecUnits |-> 3, labUnits |-> 0, units |-> 3,
      yearLevel |-> "1st Year", semester |-> "2nd Semester"],
     [key |-> <<"C", "S", " ", "1", "0", "4">>,
      name |-> "Data Structure and Algorithm",
      lecUnits |-> 2, labUnits |-> 1, units |-> 3,
      yearLevel |-> "2nd Year", semester |-> "1st Semester"],
     [key |-> <<"C", "S", " ", "1", "0", "6">>,
      name |-> "Application Development and Emerging Technologies",
      lecUnits |-> 2, labUnits |-> 1, units |-> 3,
      yearLevel |-> "2nd Year", semester |-> "1st Semester"],
     [key |-> <<"C", "S", " ", "1", "0", "8">>,
      name |-> "Object-oriented Programming",
      lecUnits |-> 2, labUnits |-> 1, units |-> 3,
      yearLevel |-> "2nd Year", semester |-> "1st Semester"],
     [key |-> <<"C", "S", " ", "1", "0", "9">>,
      name |-> "Discrete Structures 1",
      lecUnits |-> 3, labUnits |-> 0, units |-> 3,
      yearLevel |-> "2nd Year", semester |-> "1st Semester"],
     [key |-> <<"M", "a", "t", "h", " ", "E", "l", "e", "c", " ", "1", "0", "1">>,
      name |-> "Linear Algebra",
      lecUnits |-> 3, labUnits |-> 0, units |-> 3,
      yearLevel |-> "2nd Year", semester |-> "1st Semester"],
     [key |-> <<"G", "E", "C", " ", "1", "4">>,
      name |-> "Mathematics in the Modern World",
      lecUnits |-> 3, labUnits |-> 0, units |-> 3,
      yearLevel |-> "2nd Year", semester |-> "1st Semester"],
     [key |-> <<"P", "A", "T", "H", "F", "I", "T", " ", "3">>,
      name |-> "Menu of Dance, Sports, Martial Arts, Group Exercises and Outdoor Adventure Activities",
      lecUnits |-> 2, labUnits |-> 0, units |-> 2,
      yearLevel |-> "2nd Year", semester |-> "1st Semester"],
     [key |-> <<"C", "S", " ", "1", "0", "5">>,
      name |-> "Information Management",
      lecUnits |-> 2, labUnits |-> 1, units |-> 3,
      yearLevel |-> "2nd Year", semester |-> "2nd Semester"],
     [key |-> <<"C", "S", " ", "1", "1", "0">>,
      name |-> "Discrete Structures 2",
      lecUnits |-> 3, labUnits |-> 0, units |-> 3,
      yearLevel |-> "2nd Year", semester |-> "2nd Semester"],
     [key |-> <<"C", "S", " ", "1", "1", "1">>,
      name |-> "Design and Analysis of Algorithms",
      lecUnits |-> 3, labUnits |-> 0, units |-> 3,
      yearLevel |-> "2nd Year", semester |-> "2nd Semester"],
     [key |-> <<"C", "S", " ", "1", "1", "2">>,
      name |-> "Programming Languages",
      lecUnits |-> 2, labUnits |-> 1, units |-> 3,
      yearLevel |-> "2nd Year", semester |-> "2nd Semester"],
     [key |-> <<"C", "S", " ", "1", "1", "3">>,
      name |-> "Special Topics In Computing",
      lecUnits |-> 1, labUnits |-> 0, units |-> 1,
      yearLevel |-> "2nd Year", semester |-> "2nd Semester"],
     [key |-> <<"M", "a", "t", "h", " ", "E", "l", "e", "c", " ", "1", "0", "2">>,
      name |-> "Differential Equations",
      lecUnits |-> 3, labUnits |-> 0, units |-> 3,
      yearLevel |-> "2nd Year", semester |-> "2nd Semester"],
     [key |-> <<"G", "E", "C", " ", "1", "5">>,
      name |-> "Purposive Communication",
      lecUnits |-> 3, labUnits |-> 0, units |-> 3,
      yearLevel |-> "2nd Year", semester |-> "2nd Semester"],
     [key |-> <<"P", "A", "T", "H", "F", "I", "T", " ", "4">>,
      name |-> "Menu of Dance, Sports, Martial Arts, Group Exercises and Outdoor Adventure Activities",
      lecUnits |-> 2, labUnits |-> 0, units |-> 2,
      yearLevel |-> "2nd Year", semester |-> "2nd Semester"],
     [key |-> <<"C", "S", " ", "1", "1", "4">>,
      name |-> "Operating Systems",
      lecUnits |-> 2, labUnits |-> 1, units |-> 3,
      yearLevel |-> "3rd Year", semester |-> "1st Semester"],
     [key |-> <<"C", "S", " ", "1", "1", "5">>,
      name |-> "Computer Architecture and Organization",
      lecUnits |-> 3, labUnits |-> 0, units |-> 3,
      yearLevel |-> "3rd Year", semester |-> "1st Semester"],
     [key |-> <<"C", "S", " ", "1", "1", "6">>,
      name |-> "Automata Theory and Formal Languages",
      lecUnits |-> 3, labUnits |-> 0, units |-> 3,
      yearLevel |-> "3rd Year", semester |-> "1st Semester"],
     [key |-> <<"C", "S", " ", "1", "1", "7">>,
      name |-> "Software Engineering 1",
      lecUnits |-> 2, labUnits |-> 1, units |-> 3,
      yearLevel |-> "3rd Year", semester |-> "1st Semester"],
     [key |-> <<"C", "S", " ", "E", "l", "e", "c", " ", "1">>,
      name |-> "CS Elective 1",
      lecUnits |-> 3, labUnits |-> 0, units |-> 3,
      yearLevel |-> "3rd Year", semester |-> "1st Semester"],
     [key |-> <<"G", "E", "C", " ", "1", "6">>,
      name |-> "Art Appreciation",
      lecUnits |-> 3, labUnits |-> 0, units |-> 3,
      yearLevel |-> "3rd Year", semester |-> "1st Semester"],
     [key |-> <<"C", "S", " ", "1", "1", "8">>,
      name |-> "Software Engineering 2",
      lecUnits |-> 2, labUnits |-> 1, units |-> 3,
      yearLevel |-> "3rd Year", semester |-> "2nd Semester"],
     [key |-> <<"C", "S", " ", "1", "1", "9">>,
      name |-> "Networks and Communications",
      lecUnits |-> 2, labUnits |-> 1, units |-> 3,
      yearLevel |-> "3rd Year", semester |-> "2nd Semester"],
     [key |-> <<"C", "S", " ", "1", "2", "0">>,
      name |-> "Human Computer Interaction",
      lecUnits |-> 1, labUnits |-> 0, units |-> 1,
      yearLevel |-> "3rd Year", semester |-> "2nd Semester"],
     [key |-> <<"C", "S", " ", "1", "2", "1">>,
      name |-> "Information Assurance and Security",
      lecUnits |-> 2, labUnits |-> 0, units |-> 2,
      yearLevel |-> "3rd Year", semester |-> "2nd Semester"],
     [key |-> <<"C", "S", " ", "E", "l", "e", "c", " ", "2">>,
      name |-> "CS Elective 2",
      lecUnits |-> 2, labUnits |-> 1, units |-> 3,
      yearLevel |-> "3rd Year", semester |-> "2nd Semester"],
     [key |-> <<"G", "E", "C", " ", "1", "7">>,
      name |-> "Science, Technology and Society",
      lecUnits |-> 3, labUnits |-> 0, units |-> 3,
      yearLevel |-> "3rd Year", semester |-> "2nd Semester"],
     [key |-> <<"G", "E", "C", " ", "1", "8">>,
      name |-> "Ethics",
      lecUnits |-> 3, labUnits |-> 0, units |-> 3,
      yearLevel |-> "3rd Year", semester |-> "2nd Semester"],
     [key |-> <<"C", "S", " ", "1", "2", "2">>,
      name |-> "Practicum (240 hours)",
      lecUnits |-> 3, labUnits |-> 0, units |-> 3,
      yearLevel |-> "3rd Year", semester |-> "Summer"],
     [key |-> <<"C", "S", " ", "1", "2", "3">>,
      name |-> "Numerical Analysis",
      lecUnits |-> 3, labUnits |-> 0, units |-> 3,
      yearLevel |-> "4th Year", semester |-> "1st Semester"],
     [key |-> <<"C", "S", " ", "1", "2", "4">>,
      name |-> "CS Thesis 1",
      lecUnits |-> 2, labUnits |-> 1, units |-> 3,
      yearLevel |-> "4th Year", semester |-> "1st Semester"],
     [key |-> <<"C", "S", " ", "E", "l", "e", "c", " ", "3">>,
      name |-> "CS Elective 3",
      lecUnits |-> 3, labUnits |-> 0, units |-> 3,
      yearLevel |-> "4th Year", semester |-> "1st Semester"],
     [key |-> <<"G", "E", "C", " ", "2", "0">>,
      name |-> "The Entrepreneurial Mind",
      lecUnits |-> 3, labUnits |-> 0, units |-> 3,
      yearLevel |-> "4th Year", semester |-> "1st Semester"],
     [key |-> <<"G", "E", "C", " ", "E", "l", "e", "c", " ", "1">>,
      name |-> "Environmental Science",
      lecUnits |-> 3, labUnits |-> 0, units |-> 3,
      yearLevel |-> "4th Year", semester |-> "1st Semester"],
     [key |-> <<"G", "E", "C", " ", "E", "l", "e", "c", " ", "2", "2">>,
      name |-> "Great Books",
      lecUnits |-> 3, labUnits |-> 0, units |-> 3,
      yearLevel |-> "4th Year", semester |-> "1st Semester"],
     [key |-> <<"C", "S", " ", "1", "2", "5">>,
      name |-> "CS Thesis 2",
      lecUnits |-> 3, labUnits |-> 0, units |-> 3,
      yearLevel |-> "4th Year", semester |-> "2nd Semester"],
     [key |-> <<"C", "S", " ", "1", "2", "6">>,
      name |-> "Social Issues and Professional Practice",
      lecUnits |-> 3, labUnits |-> 0, units |-> 3,
      yearLevel |-> "4th Year", semester |-> "2nd Semester"],
     [key |-> <<"G", "E", "C", " ", "1", "9">>,
      name |-> "Life and Works of Rizal",
      lecUnits |-> 3, labUnits |-> 0, units |-> 3,
      yearLevel |-> "4th Year", semester |-> "2nd Semester"],
     [key |-> <<"G", "E", "C", " ", "E", "l", "e", "c", " ", "2">>,
      name |-> "Living in the IT Era",
      lecUnits |-> 3, labUnits |-> 0, units |-> 3,
      yearLevel |-> "4th Year", semester |-> "2nd Semester"],
     [key |-> <<"G", "E", "C", " ", "E", "l", "e", "c", " ", "2", "1">>,
      name |-> "Human Reproduction",
      lecUnits |-> 3, labUnits |-> 0, units |-> 3,
      yearLevel |-> "4th Year", semester |-> "2nd Semester"]
  >>

CatalogSize == Len(CURRICULUM_REFERENCE)

\* Object.keys(reference)
KeysOf(reference) == [i \in 1..Len(reference) |-> reference[i].key]

\* Object.keys(CURRICULUM_REFERENCE)
ReferenceKeys == KeysOf(CURRICULUM_REFERENCE)

\* the Summer anchor, as the code spells it
CS122 == <<"C", "S", " ", "1", "2", "2">>

(***************************************************************************)
(* hydrateSubjectsFromReference                                            *)
(***************************************************************************)
\* the normalization without the change of case
normalizeCodeKeepingCase(code) == removeWhitespace(code)

\* key.toUpperCase().replace(/\s+/g, "")
normalizeCode(code) == removeWhitespace(toUpperCase(code))

\* the lookup map after the first n keys of reference; a later key
\* overwrites an earlier one with the same normalized key
RECURSIVE RefLookupAfter(_, _)
RefLookupAfter(reference, n) ==
  IF n = 0 THEN <<>>
  ELSE (normalizeCode(reference[n].key)
          :> [refKey |-> reference[n].key, reference |-> reference[n]])
         @@ RefLookupAfter(reference, n - 1)

refLookup == RefLookupAfter(CURRICULUM_REFERENCE, CatalogSize)

\* the subject built from a match
HydratedFrom(match) ==
  [subjectCode |-> match.refKey,
   subjectName |-> match.reference.name,
   lecUnits |-> match.reference.lecUnits,
   labUnits |-> match.reference.labUnits,
   units |-> match.reference.units,
   yearLevel |-> match.reference.yearLevel,
   semester |-> match.reference.semester]

\* a look-up that takes the reference's fields but keeps the term read
HydrateNormalizedKeepingTerm(subject, normalizedCode, lookup) ==
  IF normalizedCode \in DOMAIN lookup
  THEN [HydratedFrom(lookup[normalizedCode]) EXCEPT !.semester = subject.semester]
  ELSE subject

\* the look-up of a normalized code and what the callback returns
HydrateNormalized(subject, normalizedCode, lookup) ==
  IF normalizedCode \in DOMAIN lookup
  THEN HydratedFrom(lookup[normalizedCode])
  ELSE subject

\* a subject built from a match that keeps the recognizer's spelling
HydratedKeepingSpelling(subject, match) ==
  [subjectCode |-> trim(subject.subjectCode),
   subjectName |-> match.reference.name,
   lecUnits |-> match.reference.lecUnits,
   labUnits |-> match.reference.labUnits,
   units |-> match.reference.units,
   yearLevel |-> match.reference.yearLevel,
   semester |-> match.reference.semester]

HydrateNormalizedKeepingSpelling(subject, normalizedCode, lookup) ==
  IF normalizedCode \in DOMAIN lookup
  THEN HydratedKeepingSpelling(subject, lookup[normalizedCode])
  ELSE subject

\* a callback that keeps the recognizer's spelling of a matched code
hydrateSubjectKeepingSpelling(subject) ==
  HydrateNormalizedKeepingSpelling(
    subject, normalizeCode(trim(subject.subjectCode)), refLookup)

\* the callback of subjects.map
hydrateSubject(subject) ==
  HydrateNormalized(subject, normalizeCode(trim(subject.subjectCode)), refLookup)

\* the subjects a lookup has a reference for
MatchedOnly(subjects, lookup) ==
  LET matched(s) == normalizeCode(trim(s.subjectCode)) \in DOMAIN lookup
  IN SelectSeq(subjects, matched)

HydrateEach(subjects) == [i \in 1..Len(subjects) |-> hydrateSubject(subjects[i])]

\* a hydration that discards the subjects it finds no reference for
hydrateDroppingUnmatched(subjects) == HydrateEach(MatchedOnly(subjects, refLookup))

hydrateSubjectsFromReference(subjects) ==
  [i \in 1..Len(subjects) |-> hydrateSubject(subjects[i])]

(***************************************************************************)
(* sendToGroq, from the text of the completion on.  A text is a sequence   *)
(* of the pieces "{", "}", "1", " ", "x", a fence of three backquotes and  *)
(* the word "json"; the fence and the word are one piece each.             *)
(***************************************************************************)
\* three backquotes
Fence == "FENCE"
TextAlphabet == {"{", "}", "1", " ", "x", Fence, "json"}

\* the positions of a piece in a text
PositionsOf(piece, text) == {i \in 1..Len(text) : text[i] = piece}

Least(S) == CHOOSE i \in S : \A j \in S : i <= j
Greatest(S) == CHOOSE i \in S : \A j \in S : i >= j

\* the text between the white space JSON.parse skips at both ends
JsonBody(text) == trim(text)

\* JSON.parse: of the texts over the alphabet, it accepts an empty object
\* and a number, with white space around them and inside the braces
JsonParses(body) ==
  \/ /\ Len(body) >= 2
     /\ body[1] = "{"
     /\ body[Len(body)] = "}"
     /\ \A i \in 2..(Len(body) - 1) : body[i] = " "
  \/ /\ Len(body) >= 1
     /\ \A i \in 1..Len(body) : body[i] = "1"

\* the SyntaxError of JSON.parse; its wording varies with the text
SyntaxErrorMessage == "Unexpected token x in JSON at position 0"

\* the value decoded from a body JSON.parse accepts
JsonValue(body) == IF body[1] = "{" THEN <<"{", "}">> ELSE body

JsonParse(text) ==
  IF JsonParses(JsonBody(text))
  THEN [threw |-> FALSE, value |-> JsonValue(JsonBody(text))]
  ELSE [threw |-> TRUE, message |-> SyntaxErrorMessage]

\* text.match of the fenced block pattern (fence, optional "json", \s*,
\* a lazy capture, fence): whether it matches
FenceMatches(text) == Cardinality(PositionsOf(Fence, text)) >= 2

\* the text after the opening fence, the word json and the white space
AfterOpening(rest) ==
  trimStart(IF rest # <<>> /\ rest[1] = "json" THEN Tail(rest) ELSE rest)

\* jsonMatch[1]: from the opening fence to the nearest fence after it
FenceCapture(text, open, close) == AfterOpening(SubSeq(text, open + 1, close - 1))

\* text.match(/\{[\s\S]*\}/): whether it matches
BraceMatches(text) ==
  /\ PositionsOf("{", text) # {}
  /\ PositionsOf("}", text) # {}
  /\ Least(PositionsOf("{", text)) < Greatest(PositionsOf("}", text))

\* objectMatch[0]
BraceCapture(text) ==
  SubSeq(text, Least(PositionsOf("{", text)), Greatest(PositionsOf("}", text)))

CouldNotParse == [threw |-> TRUE, message |-> "Could not parse AI response as JSON"]

\* the catch block of the direct decode
DecodeFallback(text) ==
  IF FenceMatches(text)
    THEN JsonParse(trim(FenceCapture(
           text, Least(PositionsOf(Fence, text)),
           Least(PositionsOf(Fence, text) \ {Least(PositionsOf(Fence, text))}))))
  ELSE IF BraceMatches(text)
    THEN JsonParse(BraceCapture(text))
  ELSE CouldNotParse

\* what the direct decode returned, or the fallback when it threw
DirectOrFallback(direct, text) == IF direct.threw THEN DecodeFallback(text) ELSE direct

sendToGroq(text) == DirectOrFallback(JsonParse(text), text)

(***************************************************************************)
(* The recognizer's replies.  A reply that decodes to an object with a     *)
(* subjects array is described by the pages of the checklist the           *)
(* recognizer read, the number of trailing rows it omitted from each year  *)
(* block, whether it saw the Summer row, and the number of rows it made    *)
(* up.  Every row comes back in one of four spellings with best-effort     *)
(* field values: the spelling either turns with the row's position (turn   *)
(* 1) or is one and the same for every row of the reply (turn 0), starting *)
(* from spelling spell.                                                    *)
(***************************************************************************)
YearLevels == <<"1st Year", "2nd Year", "3rd Year", "4th Year">>

\* positions in reference of the regular-term rows of a year, from i on
RECURSIVE YearBlockFrom(_, _, _)
YearBlockFrom(reference, year, i) ==
  IF i > Len(reference) THEN <<>>
  ELSE IF reference[i].yearLevel = year /\ reference[i].semester # "Summer"
       THEN <<i>> \o YearBlockFrom(reference, year, i + 1)
       ELSE YearBlockFrom(reference, year, i + 1)

YearBlocksOf(reference) ==
  <<YearBlockFrom(reference, "1st Year", 1), YearBlockFrom(reference, "2nd Year", 1),
    YearBlockFrom(reference, "3rd Year", 1), YearBlockFrom(reference, "4th Year", 1)>>

YearBlock == YearBlocksOf(CURRICULUM_REFERENCE)

SummerIndexOf(reference) ==
  CHOOSE i \in 1..Len(reference) : reference[i].semester = "Summer"

SummerIndex == SummerIndexOf(CURRICULUM_REFERENCE)

PagesRead == {"first", "second", "firstThree", "whole", "none"}
YearsOnPages(pages) ==
  CASE pages = "first" -> {1, 2}
    [] pages = "second" -> {3, 4}
    [] pages = "firstThree" -> {1, 2, 3}
    [] pages = "whole" -> {1, 2, 3, 4}
    [] pages = "none" -> {}

SubjectReplies ==
  {[kind |-> "subjects", pages |-> p, drop |-> d, summer |-> s, junk |-> j,
    turn |-> 1, spell |-> 0] :
     p \in PagesRead, d \in 0..MaxDrop, s \in BOOLEAN, j \in 0..MaxJunk}

\* one reply per distinct subjects array
DistinctSubjectReplies ==
  {r \in SubjectReplies :
     /\ (3 \notin YearsOnPages(r.pages)) => ~r.summer
     /\ (r.pages \in {"firstThree", "none"}) => r.drop = 0}

\* sendToGroq throws: the API error's status and message
ApiErrors ==
  {[kind |-> "error", status |-> 429, message |-> "429 Rate limit reached"],
   [kind |-> "error", status |-> 401, message |-> "401 Invalid API Key"],
   [kind |-> "error", status |-> 503, message |-> "503 Service unavailable"],
   [kind |-> "error", status |-> 0, message |-> "Could not parse AI response as JSON"],
   [kind |-> "error", status |-> 0, message |-> "Unexpected token x in JSON at position 0"]}

\* a complete reading of one sheet of the checklist, every row in the same
\* spelling
UniformReplies ==
  {[kind |-> "subjects", pages |-> p, drop |-> 0, summer |-> (p = "second"),
    junk |-> 0, turn |-> 0, spell |-> v] :
     p \in {"first", "second"}, v \in 0..3}

Replies ==
  DistinctSubjectReplies \cup UniformReplies \cup ApiErrors
    \cup {[kind |-> "noSubjects"], [kind |-> "nonStringCode"],
          [kind |-> "nonStringSemester"]}

\* the four spellings of a code
Substitute(s, from, to) == [i \in 1..Len(s) |-> IF s[i] \in from THEN to ELSE s[i]]
RECURSIVE WidenSpaces(_)
WidenSpaces(s) ==
  IF s = <<>> THEN <<>>
  ELSE IF Head(s) = " " THEN <<" ", "\t">> \o WidenSpaces(Tail(s))
  ELSE <<Head(s)>> \o WidenSpaces(Tail(s))

Spell(v, key) ==
  CASE v = 0 -> key
    [] v = 1 -> removeWhitespace(toLowerCase(key))
    [] v = 2 -> <<" ">> \o WidenSpaces(toUpperCase(key)) \o <<"\t", " ">>
    [] v = 3 -> Substitute(key, {"S", "s"}, "LONG_S")

\* the row the recognizer returns for catalog entry e, in spelling v
RawCatalogRow(e, v) ==
  CASE v = 0 ->
         [subjectCode |-> Spell(0, e.key), subjectName |-> e.name,
          lecUnits |-> NumberToString(e.lecUnits),
          labUnits |-> NumberToString(e.labUnits),
          units |-> NumberToString(e.units),
          yearLevel |-> e.yearLevel, semester |-> e.semester]
    [] v = 1 ->
         [subjectCode |-> Spell(1, e.key), subjectName |-> "",
          lecUnits |-> <<>>, labUnits |-> <<>>, units |-> <<>>,
          yearLevel |-> "", semester |-> ""]
    [] v = 2 ->
         [subjectCode |-> Spell(2, e.key), subjectName |-> "Misread title",
          lecUnits |-> <<"9">>, labUnits |-> <<"x">>, units |-> <<" ", "1", "2", "u">>,
          yearLevel |-> "1st Year", semester |-> "2nd Semester"]
    [] v = 3 ->
         [subjectCode |-> Spell(3, e.key), subjectName |-> e.name,
          lecUnits |-> <<"-", "1">>, labUnits |-> <<"0">>, units |-> <<"3", ".", "0">>,
          yearLevel |-> "4th Year", semester |-> "Summer"]

\* the rows returned for the catalog positions of block, less its last drop
\* positions; the spelling of a row turns with its position when turn is 1
RawRows(reference, block, drop, turn, shift) ==
  [i \in 1..(Len(block) - drop) |->
     RawCatalogRow(reference[block[i]], (block[i] * turn + shift) % 4)]

\* the k-th row the recognizer made up for image imageNum: an odd k is a
\* code outside the catalog, spelled differently in each image; an even k
\* is a row without a code
RawJunkRow(k, imageNum) ==
  LET number == NumberToString((k + 1) \div 2)
  IN IF k % 2 = 0
       THEN [subjectCode |-> <<>>, subjectName |-> "", lecUnits |-> <<>>,
             labUnits |-> <<>>, units |-> <<>>, yearLevel |-> "", semester |-> ""]
     ELSE IF imageNum = 1
       THEN [subjectCode |-> <<"I", "T", " ">> \o number,
             subjectName |-> "Made-up course",
             lecUnits |-> <<"3">>, labUnits |-> <<"0">>, units |-> <<"3">>,
             yearLevel |-> "2nd Year", semester |-> "1st Semester"]
     ELSE [subjectCode |-> <<" ", "i", "t", "\t">> \o number,
           subjectName |-> "Made-up course, read again",
           lecUnits |-> <<"2">>, labUnits |-> <<"1">>, units |-> <<"3">>,
           yearLevel |-> "3rd Year", semester |-> "2nd Semester"]

\* a JSON number where the prompt asks for a string; the fields of the model
\* hold strings, so the number 2 stands as a token of its own
NumberValue == "<number 2>"
IsString(v) == v # NumberValue

\* a row outside the catalog whose semester came back as a number
RawNumberedTermRow ==
  [subjectCode |-> <<"X", "X", " ", "1">>, subjectName |-> "Elective",
   lecUnits |-> <<"3">>, labUnits |-> <<"0">>, units |-> <<"3">>,
   yearLevel |-> "4th Year", semester |-> NumberValue]

\* the rows of year block y in reply r
YearRows(r, y, shift) ==
  IF y \in YearsOnPages(r.pages)
  THEN RawRows(CURRICULUM_REFERENCE, YearBlock[y], r.drop, r.turn, shift)
  ELSE <<>>

SummerRows(r, shift) ==
  IF r.summer THEN RawRows(CURRICULUM_REFERENCE, <<SummerIndex>>, 0, r.turn, shift) ELSE <<>>

\* parsed.subjects of a "subjects" reply to image imageNum
ParsedSubjects(r, imageNum) ==
  YearRows(r, 1, r.spell + r.drop + r.junk + imageNum)
    \o YearRows(r, 2, r.spell + r.drop + r.junk + imageNum)
    \o YearRows(r, 3, r.spell + r.drop + r.junk + imageNum)
    \o SummerRows(r, r.spell + r.drop + r.junk + imageNum)
    \o YearRows(r, 4, r.spell + r.drop + r.junk + imageNum)
    \o [k \in 1..r.junk |-> RawJunkRow(k, imageNum)]

(***************************************************************************)
(* Field defaulting of the curriculum scan.                                *)
(***************************************************************************)
UNKNOWN(k) == <<"U", "N", "K", "N", "O", "W", "N", "_">> \o NumberToString(k)

\* the callback of parsed.subjects.map; idx counts from 0
cleanSubject(s, idx) ==
  [subjectCode |-> IF s.subjectCode # <<>> THEN s.subjectCode ELSE UNKNOWN(idx + 1),
   subjectName |-> s.subjectName,
   lecUnits |-> parseIntOrZero(s.lecUnits),
   labUnits |-> parseIntOrZero(s.labUnits),
   units |-> parseIntOrZero(s.units),
   yearLevel |-> IF s.yearLevel # "" THEN s.yearLevel ELSE "Unknown",
   semester |-> IF s.semester # "" THEN s.semester ELSE "Unknown"]

cleanSubjects(subjects) ==
  [i \in 1..Len(subjects) |-> cleanSubject(subjects[i], i - 1)]

(***************************************************************************)
(* validateExtractionQuality                                               *)
(***************************************************************************)
\* byYear[year] || 0 after the forEach
CountYear(subjects, year) ==
  Cardinality({i \in 1..Len(subjects) : subjects[i].yearLevel = year})

\* expectedCounts[imageNumber]; absent for any other image number
HasExpected(imageNumber) == imageNumber \in {1, 2}
Expected(imageNumber) ==
  IF imageNumber = 1
  THEN [min |-> 27, max |-> 31, description |-> "1st & 2nd Year"]
  ELSE [min |-> 23, max |-> 27, description |-> "3rd Year + Summer + 4th Year"]

\* a count check that treats a count above the maximum as an issue
CountCheckStrict(subjects, imageNumber) ==
  LET n == Len(subjects)
      e == Expected(imageNumber)
      none == [issues |-> <<>>, warnings |-> <<>>, isGood |-> FALSE]
      range == NumberToString(e.min) \o <<"-">> \o NumberToString(e.max)
  IN IF ~HasExpected(imageNumber) THEN none
     ELSE IF n < e.min
       THEN [none EXCEPT !.issues =
               <<<<"Only ">> \o NumberToString(n) \o <<" subjects found (expected ">>
                  \o range \o <<" for ", e.description, ")">>>>]
     ELSE IF n > e.max
       THEN [none EXCEPT !.issues =
               <<<<"Found ">> \o NumberToString(n) \o <<" subjects (expected ">>
                  \o range \o <<"). May have duplicates.">>>>]
     ELSE [none EXCEPT !.isGood = TRUE]

\* the count check: issues, warnings and the tentative isGood
CountCheck(subjects, imageNumber) ==
  LET n == Len(subjects)
      e == Expected(imageNumber)
      none == [issues |-> <<>>, warnings |-> <<>>, isGood |-> FALSE]
      range == NumberToString(e.min) \o <<"-">> \o NumberToString(e.max)
  IN IF ~HasExpected(imageNumber) THEN none
     ELSE IF n < e.min
       THEN [none EXCEPT !.issues =
               <<<<"Only ">> \o NumberToString(n) \o <<" subjects found (expected ">>
                  \o range \o <<" for ", e.description, ")">>>>]
     ELSE IF n > e.max
       THEN [none EXCEPT !.warnings =
               <<<<"Found ">> \o NumberToString(n) \o <<" subjects (expected ">>
                  \o range \o <<"). May have duplicates.">>>>]
     ELSE [none EXCEPT !.isGood = TRUE]

\* year minimums that only look at years with at least one subject
YearIssuesPresentOnly(subjects, imageNumber) ==
  LET short(year, min) == CountYear(subjects, year) > 0 /\ CountYear(subjects, year) < min
      issue(year, min) ==
        IF short(year, min) THEN <<<<year, " incomplete or missing">>>> ELSE <<>>
  IN IF imageNumber = 1
       THEN issue("1st Year", 12) \o issue("2nd Year", 13)
     ELSE IF imageNumber = 2
       THEN issue("3rd Year", 11) \o issue("4th Year", 9)
     ELSE <<>>

\* the year minimums of an image
YearIssues(subjects, imageNumber) ==
  LET short(year, min) == CountYear(subjects, year) = 0 \/ CountYear(subjects, year) < min
      issue(year, min) ==
        IF short(year, min) THEN <<<<year, " incomplete or missing">>>> ELSE <<>>
  IN IF imageNumber = 1
       THEN issue("1st Year", 12) \o issue("2nd Year", 13)
     ELSE IF imageNumber = 2
       THEN issue("3rd Year", 11) \o issue("4th Year", 9)
     ELSE <<>>

\* a Summer check that fails the image for a misplaced CS 122
SummerCheckWrongTermIssue(subjects, imageNumber) ==
  LET none == [issues |-> <<>>, warnings |-> <<>>, missingCourses |-> <<>>]
      hasSummer == \E i \in 1..Len(subjects) : subjects[i].subjectCode = CS122
      first == CHOOSE i \in 1..Len(subjects) :
                 /\ subjects[i].subjectCode = CS122
                 /\ \A j \in 1..(i - 1) : subjects[j].subjectCode # CS122
      cs122 == subjects[first]
  IN IF imageNumber # 2 THEN none
     ELSE IF ~hasSummer
       THEN [none EXCEPT !.issues = <<<<"Summer semester missing (CS 122 - Practicum)">>>>,
                         !.missingCourses = <<CS122>>]
     ELSE IF cs122.semester # "Summer"
       THEN [none EXCEPT !.issues =
               <<<<"CS 122 in wrong semester (", cs122.semester, "), should be Summer">>>>]
     ELSE none

\* the Summer check of image 2
SummerCheck(subjects, imageNumber) ==
  LET none == [issues |-> <<>>, warnings |-> <<>>, missingCourses |-> <<>>]
      hasSummer == \E i \in 1..Len(subjects) : subjects[i].subjectCode = CS122
      first == CHOOSE i \in 1..Len(subjects) :
                 /\ subjects[i].subjectCode = CS122
                 /\ \A j \in 1..(i - 1) : subjects[j].subjectCode # CS122
      cs122 == subjects[first]
  IN IF imageNumber # 2 THEN none
     ELSE IF ~hasSummer
       THEN [none EXCEPT !.issues = <<<<"Summer semester missing (CS 122 - Practicum)">>>>,
                         !.missingCourses = <<CS122>>]
     ELSE IF cs122.semester # "Summer"
       THEN [none EXCEPT !.warnings =
               <<<<"CS 122 in wrong semester (", cs122.semester, "), should be Summer">>>>]
     ELSE none

\* isGood left as the count check set it
TentativeIsGood(tentative, issues) == tentative

\* the closing assignment to validation.isGood
FinalIsGood(tentative, issues) == Len(issues) = 0

validateExtractionQuality(subjects, imageNumber) ==
  LET count == CountCheck(subjects, imageNumber)
      summer == SummerCheck(subjects, imageNumber)
      issues == count.issues \o YearIssues(subjects, imageNumber) \o summer.issues
  IN [isGood |-> FinalIsGood(count.isGood, issues),
      issues |-> issues,
      warnings |-> count.warnings \o summer.warnings,
      subjectCount |-> Len(subjects),
      missingCourses |-> summer.missingCourses]

(***************************************************************************)
(* validateOverallExtraction                                               *)
(***************************************************************************)
\* imageResult.validation before it is assigned
NULL == [null |-> TRUE]

\* imageResults[k - 1]?.validation?.isGood || false
ImageGood(results, k) ==
  /\ k <= Len(results)
  /\ results[k].validation # NULL
  /\ results[k].validation.isGood

\* validation.byYear after the forEach
ByYear(subjects) ==
  [y \in {subjects[i].yearLevel : i \in 1..Len(subjects)} |->
     CountYear(subjects, y)]

\* "<n>/54 subjects"
OfTotal(n) == NumberToString(n) \o <<"/54 subjects">>

\* validation as constructed, for the fields the total count check sets
InitialOverall ==
  [quality |-> "poor", success |-> FALSE, issues |-> <<>>, warnings |-> <<>>]

\* a Good branch whose warning cites the count found
GoodBranchCitingCount(n) ==
  [InitialOverall EXCEPT
     !.quality = "good", !.success = TRUE,
     !.warnings = <<NumberToString(n) \o <<" subjects missing">>>>]

\* the branch taken for 50 <= n < 54
GoodBranch(n) ==
  [InitialOverall EXCEPT
     !.quality = "good", !.success = TRUE,
     !.warnings = <<NumberToString(54 - n) \o <<" subjects missing">>>>]

\* a Moderate branch that succeeds when either image is good
ModerateBranchEitherGood(n, results) ==
  IF ImageGood(results, 1) \/ ImageGood(results, 2)
  THEN [InitialOverall EXCEPT
          !.quality = "moderate", !.success = TRUE,
          !.warnings = <<<<"Only ">> \o OfTotal(n)
                           \o <<" total, but image quality is good">>>>]
  ELSE [InitialOverall EXCEPT
          !.quality = "moderate",
          !.issues = <<<<"Only ">> \o OfTotal(n) \o <<" extracted">>>>]

\* the branch taken for 45 <= n < 50
ModerateBranch(n, results) ==
  LET image1Good == ImageGood(results, 1)
      bothImagesGood == image1Good /\ ImageGood(results, 2)
  IN IF bothImagesGood \/ (Len(results) = 1 /\ image1Good)
     THEN [InitialOverall EXCEPT
             !.quality = "moderate", !.success = TRUE,
             !.warnings = <<<<"Only ">> \o OfTotal(n)
                              \o <<" total, but image quality is good">>>>]
     ELSE [InitialOverall EXCEPT
             !.quality = "moderate",
             !.issues = <<<<"Only ">> \o OfTotal(n) \o <<" extracted">>>>]

\* a Poor branch whose override ignores the number of images
PoorBranchAnyImageCount(n, results) ==
  IF ImageGood(results, 1) \/ ImageGood(results, 2)
  THEN [InitialOverall EXCEPT
          !.quality = "moderate", !.success = TRUE,
          !.warnings = <<<<"Partial scan: ">> \o NumberToString(n)
                           \o <<" subjects extracted from 1 image">>>>]
  ELSE [InitialOverall EXCEPT
          !.quality = "poor",
          !.issues = <<<<"Very poor extraction: only ">> \o OfTotal(n)>>]

\* the branch taken for n < 45
PoorBranch(n, results) ==
  IF Len(results) = 1 /\ (ImageGood(results, 1) \/ ImageGood(results, 2))
  THEN [InitialOverall EXCEPT
          !.quality = "moderate", !.success = TRUE,
          !.warnings = <<<<"Partial scan: ">> \o NumberToString(n)
                           \o <<" subjects extracted from 1 image">>>>]
  ELSE [InitialOverall EXCEPT
          !.quality = "poor",
          !.issues = <<<<"Very poor extraction: only ">> \o OfTotal(n)>>]

\* a total count check without the Moderate band
TotalCountCheckNoModerateBand(subjects, results) ==
  LET n == Len(subjects)
  IN IF n >= 54
       THEN [InitialOverall EXCEPT !.quality = "excellent", !.success = TRUE]
     ELSE IF n >= 50 THEN [InitialOverall EXCEPT
                             !.quality = "good", !.success = TRUE,
                             !.warnings = <<NumberToString(54 - n)
                                              \o <<" subjects missing">>>>]
     ELSE IF Len(results) = 1 /\ ImageGood(results, 1)
       THEN [InitialOverall EXCEPT
               !.quality = "moderate", !.success = TRUE,
               !.warnings = <<<<"Partial scan: ">> \o NumberToString(n)
                                \o <<" subjects extracted from 1 image">>>>]
     ELSE [InitialOverall EXCEPT
             !.issues = <<<<"Only ">> \o OfTotal(n) \o <<" extracted">>>>]

\* a total count check that asks for more than the catalog holds
TotalCountCheckAbove54(subjects, results) ==
  LET n == Len(subjects)
  IN IF n > 54
       THEN [InitialOverall EXCEPT !.quality = "excellent", !.success = TRUE]
     ELSE IF n >= 50 THEN GoodBranch(n)
     ELSE IF n >= 45 THEN ModerateBranch(n, results)
     ELSE PoorBranch(n, results)

\* the total count check: quality, success, issues and warnings
TotalCountCheck(subjects, results) ==
  LET n == Len(subjects)
  IN IF n >= 54
       THEN [InitialOverall EXCEPT !.quality = "excellent", !.success = TRUE]
     ELSE IF n >= 50 THEN GoodBranch(n)
     ELSE IF n >= 45 THEN ModerateBranch(n, results)
     ELSE PoorBranch(n, results)

\* a years check that runs whatever the number of images
YearsPresentIssuesAnyImageCount(subjects, results) ==
  LET issue(y) ==
        IF CountYear(subjects, YearLevels[y]) = 0
        THEN <<<<YearLevels[y], " completely missing">>>> ELSE <<>>
  IN issue(1) \o issue(2) \o issue(3) \o issue(4)

\* the issues of the check that all years are present
YearsPresentIssues(subjects, results) ==
  LET issue(y) ==
        IF CountYear(subjects, YearLevels[y]) = 0
        THEN <<<<YearLevels[y], " completely missing">>>> ELSE <<>>
  IN IF Len(results) = 2
     THEN issue(1) \o issue(2) \o issue(3) \o issue(4)
     ELSE <<>>

\* a Summer check that runs whatever the number of images
OverallSummerCheckAnyImageCount(subjects, results) ==
  LET hasSummer == \E i \in 1..Len(subjects) : subjects[i].subjectCode = CS122
  IN IF ~hasSummer
     THEN [issues |-> <<<<"Summer semester missing (CS 122)">>>>,
           missingCourses |-> <<CS122>>]
     ELSE [issues |-> <<>>, missingCourses |-> <<>>]

\* the Summer check: its issue and what it pushes to missingCourses
OverallSummerCheck(subjects, results) ==
  LET hasSummer == \E i \in 1..Len(subjects) : subjects[i].subjectCode = CS122
  IN IF ~hasSummer /\ Len(results) = 2
     THEN [issues |-> <<<<"Summer semester missing (CS 122)">>>>,
           missingCourses |-> <<CS122>>]
     ELSE [issues |-> <<>>, missingCourses |-> <<>>]

\* a missing-courses list that keeps what the Summer check pushed
MissingCoursesKeepingPushed(pushed, subjects) ==
  LET extractedCodes == {subjects[i].subjectCode : i \in 1..Len(subjects)}
      missing(code) == code \notin extractedCodes
  IN pushed \o SelectSeq(ReferenceKeys, missing)

\* the closing assignment to validation.missingCourses, which replaces what
\* the Summer check pushed
MissingCourses(pushed, subjects) ==
  LET extractedCodes == {subjects[i].subjectCode : i \in 1..Len(subjects)}
      missing(code) == code \notin extractedCodes
  IN SelectSeq(ReferenceKeys, missing)

validateOverallExtraction(subjects, results) ==
  LET total == TotalCountCheck(subjects, results)
      summer == OverallSummerCheck(subjects, results)
  IN [success |-> total.success,
      quality |-> total.quality,
      totalCount |-> Len(subjects),
      issues |-> total.issues \o YearsPresentIssues(subjects, results)
                   \o summer.issues,
      warnings |-> total.warnings,
      missingCourses |-> MissingCourses(summer.missingCourses, subjects),
      byYear |-> ByYear(subjects)]

(***************************************************************************)
(* POST /api/scan-curriculum                                               *)
(***************************************************************************)
\* upload.array("image", 2)
MaxFiles == 2

UploadPath(i) == <<"uploads", i>>
\* filePath + "_processed.png"
ProcessedPath(i) == <<"uploads", i, "_processed.png">>

\* the validation recorded by the per-image catch
FailedValidation(message) ==
  [isGood |-> FALSE, issues |-> <<<<message>>>>, warnings |-> <<>>, subjectCount |-> 0]

\* imageResult as the loop creates it
NewImageResult(imageNum) ==
  [imageNumber |-> imageNum, subjects |-> <<>>, validation |-> NULL]

\* a catch that only logs the message
ThrownOutcomeUnrecorded(result, message) ==
  [threw |-> TRUE, pushed |-> <<>>, imageResult |-> result]

\* the inner try threw: nothing was pushed and the catch records the message
ThrownOutcome(result, message) ==
  [threw |-> TRUE, pushed |-> <<>>,
   imageResult |-> [result EXCEPT !.validation = FailedValidation(message)]]

\* the inner try with a subjects array, from hydration on
SubjectsOutcome(result, hydrated, imageNum) ==
  [threw |-> FALSE, pushed |-> hydrated,
   imageResult |->
     [result EXCEPT !.subjects = hydrated,
                    !.validation = validateExtractionQuality(hydrated, imageNum)]]

\* the body of the inner try for one image, from the recognizer's reply on:
\* what it leaves in imageResult, what it pushes to allSubjects, and whether
\* it threw before the processed image was cleaned up
ImageOutcome(r, imageNum) ==
  CASE r.kind = "error" -> ThrownOutcome(NewImageResult(imageNum), r.message)
    [] r.kind = "nonStringCode" ->
         ThrownOutcome(NewImageResult(imageNum),
                       "subject.subjectCode.trim is not a function")
    [] r.kind = "noSubjects" ->
         [threw |-> FALSE, pushed |-> <<>>, imageResult |-> NewImageResult(imageNum)]
    [] r.kind = "nonStringSemester" ->
         SubjectsOutcome(
           NewImageResult(imageNum),
           hydrateSubjectsFromReference(cleanSubjects(<<RawNumberedTermRow>>)),
           imageNum)
    [] r.kind = "subjects" ->
         SubjectsOutcome(
           NewImageResult(imageNum),
           hydrateSubjectsFromReference(cleanSubjects(ParsedSubjects(r, imageNum))),
           imageNum)

\* the filter of the deduplication, from position i on
RECURSIVE FilterUnseen(_, _, _)
FilterUnseen(subjects, i, seen) ==
  IF i > Len(subjects) THEN <<>>
  ELSE LET key == removeWhitespace(toLowerCase(subjects[i].subjectCode))
       IN IF key \in seen
          THEN FilterUnseen(subjects, i + 1, seen)
          ELSE <<subjects[i]>> \o FilterUnseen(subjects, i + 1, seen \cup {key})

\* a deduplication whose key is the code as spelled
RECURSIVE FilterUnseenExact(_, _, _)
FilterUnseenExact(subjects, i, seen) ==
  IF i > Len(subjects) THEN <<>>
  ELSE LET key == subjects[i].subjectCode
       IN IF key \in seen
          THEN FilterUnseenExact(subjects, i + 1, seen)
          ELSE <<subjects[i]>> \o FilterUnseenExact(subjects, i + 1, seen \cup {key})

DeduplicateBySpelling(subjects) == FilterUnseenExact(subjects, 1, {})

Deduplicate(subjects) == FilterUnseen(subjects, 1, {})

Init ==
  /\ pc = "idle"
  /\ files = 0
  /\ apiKey = FALSE
  /\ disk = {}
  /\ replies = <<>>
  /\ imageResults = <<>>
  /\ allSubjects = <<>>
  /\ uniqueSubjects = <<>>
  /\ overallValidation = NULL
  /\ sent = <<>>
  /\ call = NULL
  /\ returned = NULL

\* multer has stored the uploaded files and the handler is entered
Receive ==
  /\ pc = "idle"
  /\ \E n \in 0..MaxFiles, key \in BOOLEAN :
       /\ files' = n
       /\ apiKey' = key
       /\ disk' = {UploadPath(i) : i \in 1..n}
  /\ pc' = "handling"
  /\ UNCHANGED <<replies, imageResults, allSubjects, uniqueSubjects,
                 overallValidation, sent, call, returned>>

RejectNoFiles ==
  /\ pc = "handling"
  /\ files = 0
  /\ sent' = Append(sent, [status |-> 400, success |-> FALSE, quality |-> "error",
                           error |-> "No image(s) uploaded"])
  /\ pc' = "done"
  /\ UNCHANGED <<files, apiKey, disk, replies, imageResults, allSubjects,
                 uniqueSubjects, overallValidation, call, returned>>

RejectNoKey ==
  /\ pc = "handling"
  /\ files > 0
  /\ ~apiKey
  /\ sent' = Append(sent, [status |-> 500, success |-> FALSE, quality |-> "error",
                           error |-> "GROQ_API_KEY not set"])
  /\ pc' = "done"
  /\ UNCHANGED <<files, apiKey, disk, replies, imageResults, allSubjects,
                 uniqueSubjects, overallValidation, call, returned>>

\* the files on disk after the iteration for image imageNum
DiskAfterImage(before, imageNum, preprocessed, threw) ==
  IF preprocessed /\ threw THEN before \cup {ProcessedPath(imageNum)} ELSE before

\* the state after an iteration with outcome out
RecordOutcome(r, imageNum, out) ==
  /\ replies' = Append(replies, r)
  /\ imageResults' = Append(imageResults, out.imageResult)
  /\ allSubjects' = allSubjects \o out.pushed
  /\ \E preprocessed \in BOOLEAN :
       disk' = DiskAfterImage(disk, imageNum, preprocessed, out.threw)

\* one iteration of the image loop
ProcessImage ==
  /\ pc = "handling"
  /\ files > 0
  /\ apiKey
  /\ Len(imageResults) < files
  /\ \E r \in Replies :
       RecordOutcome(r, Len(imageResults) + 1, ImageOutcome(r, Len(imageResults) + 1))
  /\ UNCHANGED <<pc, files, apiKey, uniqueSubjects, overallValidation, sent,
                 call, returned>>

\* the error a failed request is answered with
getErrorMessage(error) ==
  IF error.status = 429
    THEN "Rate limited. Wait 1 minute and try again (max 30 req/min)."
  ELSE IF error.status = 401
    THEN "Invalid API key. Check your .env file."
  ELSE error.message

\* error.status || 500
StatusOr500(error) == IF error.status # 0 THEN error.status ELSE 500

\* the subject list log calls s.semester.replace and s.subjectName.substring
LoggingThrows(subjects) ==
  \E i \in 1..Len(subjects) :
    ~IsString(subjects[i].semester) \/ ~IsString(subjects[i].subjectName)

\* the TypeError of the subject list log
LoggingError ==
  [status |-> 0, message |-> "s.semester.replace is not a function"]

\* the body of the outer catch
FatalResponse(error) ==
  [status |-> StatusOr500(error), success |-> FALSE, quality |-> "error",
   error |-> getErrorMessage(error)]

\* the report of res.json
Report(subjects, validation, results) ==
  [status |-> 200,
   success |-> validation.success,
   quality |-> validation.quality,
   subjects |-> subjects,
   validation |-> validation,
   imageResults |-> results]

\* after the loop: deduplication, overall validation, the subject list log,
\* the response, and the finally block
Finish ==
  /\ pc = "handling"
  /\ files > 0
  /\ apiKey
  /\ Len(imageResults) = files
  /\ uniqueSubjects' = Deduplicate(allSubjects)
  /\ overallValidation' = validateOverallExtraction(uniqueSubjects', imageResults)
  /\ sent' = Append(sent, IF LoggingThrows(uniqueSubjects')
                           THEN FatalResponse(LoggingError)
                           ELSE Report(uniqueSubjects', overallValidation', imageResults))
  /\ disk' = disk \ {UploadPath(i) : i \in 1..files}
  /\ pc' = "done"
  /\ UNCHANGED <<files, apiKey, replies, imageResults, allSubjects, call, returned>>

(***************************************************************************)
(* POST /api/scan-cor, /api/scan-grades, /api/scan-timetable               *)
(***************************************************************************)
SingleEndpoints == {"cor", "grades", "timetable"}

\* what sendToGroq hands a single-image handler: the decoded reply, or the
\* error it throws
SingleReplies == ApiErrors \cup {[kind |-> "decoded"]}

\* upload.single("image") has stored the file, if any, and a handler is entered
ReceiveSingle ==
  /\ pc = "idle"
  /\ \E endpoint \in SingleEndpoints, n \in {0, 1}, key \in BOOLEAN :
       /\ pc' = endpoint
       /\ files' = n
       /\ apiKey' = key
       /\ disk' = {UploadPath(i) : i \in 1..n}
  /\ UNCHANGED <<replies, imageResults, allSubjects, uniqueSubjects,
                 overallValidation, sent, call, returned>>

\* the body of the catch of a single-image handler
SingleErrorResponse(error) ==
  [status |-> StatusOr500(error), success |-> FALSE, error |-> getErrorMessage(error)]

\* a single-image handler, from its early returns to its finally block
ScanSingle ==
  /\ pc \in SingleEndpoints
  /\ IF files = 0
       THEN /\ sent' = Append(sent, [status |-> 400, success |-> FALSE,
                                     error |-> "No image uploaded"])
            /\ UNCHANGED <<replies, disk>>
     ELSE IF ~apiKey
       THEN /\ sent' = Append(sent, [status |-> 500, success |-> FALSE,
                                     error |-> "GROQ_API_KEY not set. Add it to your .env file."])
            /\ UNCHANGED <<replies, disk>>
     ELSE \E r \in SingleReplies :
            /\ replies' = Append(replies, r)
            /\ sent' = Append(sent, IF r.kind = "error"
                                     THEN SingleErrorResponse(r)
                                     ELSE [status |-> 200, success |-> TRUE])
            /\ disk' = disk \ {UploadPath(1)}
  /\ pc' = "answered"
  /\ UNCHANGED <<files, apiKey, imageResults, allSubjects, uniqueSubjects,
                 overallValidation, call, returned>>

Next ==
  \/ Receive \/ RejectNoFiles \/ RejectNoKey \/ ProcessImage \/ Finish
  \/ ReceiveSingle \/ ScanSingle

Spec == Init /\ [][Next]_vars

(***************************************************************************)
(* Direct calls of the functions of src/server.js, on arguments the        *)
(* request handlers need not produce.                                      *)
(***************************************************************************)
\* the entities of reply r as image 1 hands them to validation
HydratedBatch(r) ==
  hydrateSubjectsFromReference(cleanSubjects(ParsedSubjects(r, 1)))

\* the entities of reply r as the recognizer spelled and placed them
CleanedBatch(r) == cleanSubjects(ParsedSubjects(r, 2))

\* subjects with the Summer anchor placed in term
WithTerm(subjects, term) ==
  [i \in 1..Len(subjects) |->
     IF subjects[i].subjectCode = CS122
     THEN [subjects[i] EXCEPT !.semester = term]
     ELSE subjects[i]]

\* image numbers a caller can pass; only 1 and 2 have expected counts
ImageNumbers == {1, 2, 3}

ValidationCalls ==
  {[function |-> "validateExtractionQuality",
    subjects |-> WithTerm(HydratedBatch(r), term), imageNumber |-> k] :
     r \in DistinctSubjectReplies, term \in {"Summer", "1st Semester"},
     k \in ImageNumbers}
  \cup
  {[function |-> "validateExtractionQuality",
    subjects |-> CleanedBatch(r), imageNumber |-> k] :
     r \in DistinctSubjectReplies, k \in ImageNumbers}

Texts == UNION {[1..n -> TextAlphabet] : n \in 0..MaxTextLen}

DecodeCalls == {[function |-> "sendToGroq", text |-> text] : text \in Texts}

Calls == ValidationCalls \cup DecodeCalls

InitCall ==
  /\ pc = "call"
  /\ call \in Calls
  /\ returned = NULL
  /\ files = 0
  /\ apiKey = FALSE
  /\ disk = {}
  /\ replies = <<>>
  /\ imageResults = <<>>
  /\ allSubjects = <<>>
  /\ uniqueSubjects = <<>>
  /\ overallValidation = NULL
  /\ sent = <<>>

CallValidateExtractionQuality ==
  /\ pc = "call"
  /\ call.function = "validateExtractionQuality"
  /\ returned' = validateExtractionQuality(call.subjects, call.imageNumber)
  /\ pc' = "returned"
  /\ UNCHANGED <<call, files, apiKey, disk, replies, imageResults, allSubjects,
                 uniqueSubjects, overallValidation, sent>>

CallSendToGroq ==
  /\ pc = "call"
  /\ call.function = "sendToGroq"
  /\ returned' = sendToGroq(call.text)
  /\ pc' = "returned"
  /\ UNCHANGED <<call, files, apiKey, disk, replies, imageResults, allSubjects,
                 uniqueSubjects, overallValidation, sent>>

NextCall == CallValidateExtractionQuality \/ CallSendToGroq

FunctionSpec == InitCall /\ [][NextCall]_vars

(***************************************************************************)
(* Properties.                                                             *)
(***************************************************************************)
\* a code in upper case with all white space removed, as the catalog's
\* matching rule is stated
NormalizedKey(code) ==
  LET solid(c) == c \notin Whitespace
  IN SelectSeq(toUpperCase(code), solid)

\* a code in lower case with all white space removed, as the deduplication
\* rule is stated
DedupKey(code) ==
  LET solid(c) == c \notin Whitespace
  IN SelectSeq(toLowerCase(code), solid)

CatalogKeysNormalized ==
  [n \in 1..CatalogSize |-> NormalizedKey(CURRICULUM_REFERENCE[n].key)] \o <<>>

\* catalog positions whose normalized key is that of code
CatalogMatches(code) ==
  LET k == NormalizedKey(code)
  IN {n \in 1..CatalogSize : CatalogKeysNormalized[n] = k}

Contains(list, x) == \E i \in 1..Len(list) : list[i] = x

\* the images whose reply carried a subjects array of string codes
HydratedImages == {k \in 1..Len(imageResults) : replies[k].kind = "subjects"}

\* the list handed to hydration for image k
HydrationInput(k) == cleanSubjects(ParsedSubjects(replies[k], k))

\* the report has been sent
Reported == pc = "done" /\ overallValidation # NULL

\* an image has a validation and it is good
Passed(k) ==
  /\ imageResults[k].validation # NULL
  /\ imageResults[k].validation.isGood

(* C1: hydration returns one entity per input entity, the entity at each   *)
(* index coming from the input at that index, and it does not fail on a    *)
(* list of string codes.                                                   *)
C1_HydrationTotality ==
  \A k \in HydratedImages :
    LET xs == HydrationInput(k)
        ys == imageResults[k].subjects
    IN /\ Len(ys) = Len(xs)
       /\ \A i \in 1..Len(xs) :
            NormalizedKey(ys[i].subjectCode) = NormalizedKey(xs[i].subjectCode)
       /\ imageResults[k].validation # NULL
       /\ ~Contains(imageResults[k].validation.issues,
                    <<"subject.subjectCode.trim is not a function">>)

\* a list mixing catalog rows and rows outside the catalog has been hydrated
C1_Witness ==
  \E k \in HydratedImages :
    LET xs == HydrationInput(k)
    IN /\ \E i \in 1..Len(xs) : CatalogMatches(xs[i].subjectCode) = {}
       /\ \E i \in 1..Len(xs) : CatalogMatches(xs[i].subjectCode) # {}
       /\ Len(imageResults[k].subjects) > 1

(* C2: an entity whose normalized code is that of a catalog entry comes    *)
(* out with the catalog's spelling, name, units, year level and term,      *)
(* whatever it carried; any other entity comes out unchanged.              *)
C2_HydrationFixpoint ==
  \A k \in HydratedImages :
    LET xs == HydrationInput(k)
        ys == imageResults[k].subjects
    IN \A i \in 1..Len(xs) :
         LET hits == CatalogMatches(xs[i].subjectCode)
         IN IF hits = {} THEN ys[i] = xs[i]
            ELSE \A n \in hits :
                   LET ref == CURRICULUM_REFERENCE[n]
                   IN /\ ys[i].subjectCode = ref.key
                      /\ ys[i].subjectName = ref.name
                      /\ ys[i].lecUnits = ref.lecUnits
                      /\ ys[i].labUnits = ref.labUnits
                      /\ ys[i].units = ref.units
                      /\ ys[i].yearLevel = ref.yearLevel
                      /\ ys[i].semester = ref.semester

\* a respelled catalog row carrying a wrong year and term has been
\* hydrated, next to a row outside the catalog
C2_Witness ==
  \E k \in HydratedImages :
    LET xs == HydrationInput(k)
        ys == imageResults[k].subjects
    IN /\ \E i \in 1..Len(xs) :
            /\ CatalogMatches(xs[i].subjectCode) # {}
            /\ xs[i].subjectCode # ys[i].subjectCode
            /\ xs[i].yearLevel # ys[i].yearLevel
            /\ xs[i].semester # ys[i].semester
            /\ xs[i].units # ys[i].units
       /\ \E i \in 1..Len(xs) : CatalogMatches(xs[i].subjectCode) = {}

\* the batches of the images, flattened in submission order
RECURSIVE FlattenBatches(_)
FlattenBatches(k) ==
  IF k = 0 THEN <<>> ELSE FlattenBatches(k - 1) \o imageResults[k].subjects

(* C3: the deduplicated list is the flattened batches with, for each key,  *)
(* only the first occurrence kept, in first-occurrence order.              *)
C3_DedupFirstWins ==
  Reported =>
    LET flat == FlattenBatches(Len(imageResults))
        keys == [i \in 1..Len(flat) |-> DedupKey(flat[i].subjectCode)] \o <<>>
        firsts == {i \in 1..Len(flat) : \A j \in 1..(i - 1) : keys[j] # keys[i]}
        rank(i) == Cardinality({j \in firsts : j <= i})
        kept == [m \in 1..Len(uniqueSubjects) |->
                   DedupKey(uniqueSubjects[m].subjectCode)] \o <<>>
    IN /\ Len(uniqueSubjects) = Cardinality(firsts)
       /\ \A i \in firsts : uniqueSubjects[rank(i)] = flat[i]
       /\ \A a, b \in 1..Len(kept) : a # b => kept[a] # kept[b]
       /\ Len(uniqueSubjects) <= Len(flat)

\* two images returned different entities under one key, and the later one
\* is not in the deduplicated list
C3_Witness ==
  /\ Reported
  /\ Len(imageResults) = 2
  /\ \E i \in 1..Len(imageResults[1].subjects), j \in 1..Len(imageResults[2].subjects) :
       LET a == imageResults[1].subjects[i]
           b == imageResults[2].subjects[j]
       IN /\ DedupKey(a.subjectCode) = DedupKey(b.subjectCode)
          /\ a.subjectCode # b.subjectCode
          /\ Contains(uniqueSubjects, a)
          /\ ~Contains(uniqueSubjects, b)

(* C4: every per-image validation in imageResults has isGood exactly when  *)
(* its issues are empty.                                                   *)
C4_IsGoodIffNoIssues ==
  \A k \in 1..Len(imageResults) :
    imageResults[k].validation # NULL =>
      (imageResults[k].validation.isGood <=> imageResults[k].validation.issues = <<>>)

\* one image is good despite a warning, and another is within its expected
\* count but has an issue
C4_Witness ==
  /\ \E k \in HydratedImages :
       /\ imageResults[k].validation.warnings # <<>>
       /\ imageResults[k].validation.isGood
  /\ \E k \in HydratedImages :
       /\ imageResults[k].validation.subjectCount >= Expected(k).min
       /\ imageResults[k].validation.subjectCount <= Expected(k).max
       /\ imageResults[k].validation.issues # <<>>
       /\ ~imageResults[k].validation.isGood

(* C5: 54 or more deduplicated subjects give Excellent and success; 50 to  *)
(* 53 give Good and success with a warning citing 54 minus the count.      *)
C5_ExcellentAndGoodTiers ==
  Reported =>
    LET n == Len(uniqueSubjects)
    IN /\ CatalogSize = 54
       /\ n >= 54 => /\ overallValidation.quality = "excellent"
                     /\ overallValidation.success
       /\ (50 <= n /\ n <= 53) =>
            /\ overallValidation.quality = "good"
            /\ overallValidation.success
            /\ Contains(overallValidation.warnings,
                        NumberToString(54 - n) \o <<" subjects missing">>)

\* a report on 51 subjects from two images
C5_Witness ==
  /\ Reported
  /\ Len(imageResults) = 2
  /\ Len(uniqueSubjects) = 51
  /\ overallValidation.quality = "good"

\* every submitted image has a validation and it is good
AllImagesPassed == \A k \in 1..Len(imageResults) : Passed(k)

\* one image was submitted and it passed
SingleImagePassed == Len(imageResults) = 1 /\ Passed(1)

(* C6: 45 to 49 deduplicated subjects give Moderate; success holds exactly *)
(* when all submitted images passed or the single submitted image passed,  *)
(* and otherwise an issue reports the raw shortfall.                       *)
C6_ModerateTier ==
  Reported =>
    LET n == Len(uniqueSubjects)
    IN (45 <= n /\ n <= 49) =>
         /\ overallValidation.quality = "moderate"
         /\ overallValidation.success <=> (AllImagesPassed \/ SingleImagePassed)
         /\ ~overallValidation.success =>
              Contains(overallValidation.issues,
                       <<"Only ">> \o NumberToString(n) \o <<"/54 subjects", " extracted">>)

\* two images that both passed, merged to between 45 and 49 subjects
C6_Witness ==
  /\ Reported
  /\ Len(imageResults) = 2
  /\ Passed(1) /\ Passed(2)
  /\ Len(uniqueSubjects) \in 45..49
  /\ overallValidation.success

\* two images were submitted, neither passed, and 47 subjects remain
BothFailedAt47 ==
  /\ Reported
  /\ Len(imageResults) = 2
  /\ ~Passed(1) /\ ~Passed(2)
  /\ Len(uniqueSubjects) = 47

(* C7 as stated: 47 subjects from two images that both failed give Poor    *)
(* and failure with an issue citing the shortfall.                         *)
C7_PoorAt47BothFailed ==
  BothFailedAt47 =>
    /\ overallValidation.quality = "poor"
    /\ ~overallValidation.success
    /\ Contains(overallValidation.issues,
                <<"Only ", "4", "7", "/54 subjects", " extracted">>)

(* C7 as amended: 47 subjects from two images that both failed give        *)
(* Moderate and failure with an issue citing the shortfall.                *)
C7_ModerateAt47BothFailed ==
  BothFailedAt47 =>
    /\ overallValidation.quality = "moderate"
    /\ ~overallValidation.success
    /\ Contains(overallValidation.issues,
                <<"Only ", "4", "7", "/54 subjects", " extracted">>)

\* the report on 47 subjects from two failed images, each of which
\* returned subjects
C7_Witness ==
  /\ BothFailedAt47
  /\ HydratedImages = {1, 2}

(* C8: fewer than 45 deduplicated subjects give Moderate and success with  *)
(* the partial-scan message as a warning when the single submitted image   *)
(* passed, and otherwise Poor and failure with the severe-shortfall issue. *)
C8_PoorTier ==
  Reported =>
    LET n == Len(uniqueSubjects)
        partial == <<"Partial scan: ">> \o NumberToString(n)
                     \o <<" subjects extracted from 1 image">>
        severe == <<"Very poor extraction: only ">> \o NumberToString(n)
                    \o <<"/54 subjects">>
    IN n < 45 =>
         IF SingleImagePassed
         THEN /\ overallValidation.quality = "moderate"
              /\ overallValidation.success
              /\ Contains(overallValidation.warnings, partial)
              /\ ~Contains(overallValidation.issues, partial)
         ELSE /\ overallValidation.quality = "poor"
              /\ ~overallValidation.success
              /\ Contains(overallValidation.issues, severe)

\* a single passing image with fewer than 45 subjects has been reported on
C8_Witness ==
  /\ Reported
  /\ SingleImagePassed
  /\ Len(uniqueSubjects) < 45
  /\ overallValidation.quality = "moderate"

\* no deduplicated subject has year level y
YearAbsent(y) ==
  \A i \in 1..Len(uniqueSubjects) : uniqueSubjects[i].yearLevel # YearLevels[y]

(* C9: the issue "<year> completely missing" is present exactly when two   *)
(* images were submitted and no deduplicated subject has that year level.  *)
C9_YearMissingOnlyForTwoImages ==
  Reported =>
    \A y \in 1..4 :
      Contains(overallValidation.issues, <<YearLevels[y], " completely missing">>)
        <=> (files = 2 /\ YearAbsent(y))

\* two images without any 4th Year subject, reported above the Poor tier
C9_Witness ==
  /\ Reported
  /\ files = 2
  /\ YearAbsent(4)
  /\ overallValidation.quality # "poor"
  /\ Contains(overallValidation.issues, <<"4th Year", " completely missing">>)

\* the catalog codes whose normalized key no deduplicated subject has
CodesNotExtracted ==
  LET have == {NormalizedKey(uniqueSubjects[i].subjectCode) :
                 i \in 1..Len(uniqueSubjects)}
  IN {CURRICULUM_REFERENCE[n].key :
        n \in {m \in 1..CatalogSize : CatalogKeysNormalized[m] \notin have}}

(* C10: missingCourses lists, once each, exactly the catalog codes whose   *)
(* normalized key is the normalized key of no deduplicated subject.        *)
C10_MissingCodesComplete ==
  Reported =>
    LET listed == overallValidation.missingCourses
    IN /\ {listed[i] : i \in 1..Len(listed)} = CodesNotExtracted
       /\ Len(listed) = Cardinality(CodesNotExtracted)

\* two images, the Summer anchor absent, other codes present in a spelling
\* that is not the catalog's
C10_Witness ==
  /\ Reported
  /\ files = 2
  /\ CS122 \in CodesNotExtracted
  /\ Cardinality(CodesNotExtracted) < CatalogSize
  /\ \E k \in HydratedImages :
       \E i \in 1..Len(imageResults[k].subjects) :
         /\ CatalogMatches(imageResults[k].subjects[i].subjectCode) # {}
         /\ HydrationInput(k)[i].subjectCode # imageResults[k].subjects[i].subjectCode

\* the request went through the image loop and the handler has returned
LoopDone == pc = "done" /\ files > 0 /\ apiKey

\* the images whose recognizer call, or the decoding of its text, failed
FailedImages == {k \in 1..Len(replies) : replies[k].kind = "error"}

\* the entities the reply to image k carried, after cleaning and hydration
Contribution(k) ==
  IF replies[k].kind = "subjects" THEN imageResults[k].subjects ELSE <<>>

RECURSIVE ContributionsUpTo(_)
ContributionsUpTo(k) ==
  IF k = 0 THEN <<>> ELSE ContributionsUpTo(k - 1) \o Contribution(k)

(* C11: when the recognizer call or the decoding of its text fails for     *)
(* image k, the validation of image k is isGood = false with the failure   *)
(* message as its only issue and image k adds nothing to the merged list;  *)
(* every image is still processed, the entities of the images with a       *)
(* subjects array are all in the merged list, and the response is the      *)
(* fatal-error one only if an image that did not fail carried a row the    *)
(* subject list log cannot print.                                          *)
C11_ImageFailureAbsorbed ==
  LoopDone =>
    /\ Len(imageResults) = files
    /\ \A k \in FailedImages :
         /\ imageResults[k].validation # NULL
         /\ imageResults[k].validation.isGood = FALSE
         /\ imageResults[k].validation.issues = <<<<replies[k].message>>>>
         /\ imageResults[k].subjects = <<>>
    /\ \A k \in 1..files :
         replies[k].kind = "subjects" =>
           Len(imageResults[k].subjects) = Len(HydrationInput(k))
    /\ (FailedImages # {} /\ \A k \in 1..files : replies[k].kind # "nonStringSemester")
         => (allSubjects = ContributionsUpTo(files) /\ sent[1].status = 200)
    /\ Len(sent) = 1
    /\ (sent[1].quality = "error")
         => \E k \in 1..files :
              k \notin FailedImages /\ replies[k].kind = "nonStringSemester"

\* the first image failed, the second was read, and its entities are reported
C11_Witness ==
  /\ LoopDone
  /\ files = 2
  /\ 1 \in FailedImages
  /\ replies[2].kind = "subjects"
  /\ Len(imageResults[2].subjects) > 20
  /\ sent[1].status = 200
  /\ Len(sent[1].subjects) = Len(imageResults[2].subjects)

QualityTiers == {"poor", "moderate", "good", "excellent"}

(* C12: a request with at least one image and the credential configured is *)
(* answered exactly once, by a report that carries a success flag, a tier  *)
(* among poor, moderate, good and excellent, the deduplicated list, the    *)
(* per-image results and the missing codes, whatever the recognizer        *)
(* replied for each image.                                                 *)
C12_AlwaysAReport ==
  LoopDone =>
    /\ Len(sent) = 1
    /\ sent[1].status = 200
    /\ sent[1].success \in BOOLEAN
    /\ sent[1].quality \in QualityTiers
    /\ {"subjects", "imageResults", "validation"} \subseteq DOMAIN sent[1]
    /\ sent[1].subjects = uniqueSubjects
    /\ sent[1].imageResults = imageResults
    /\ sent[1].validation.missingCourses = overallValidation.missingCourses

\* the handler of a request that came with files has returned
HandlerReturned == pc = "done" /\ files > 0

(* C13: once the handler of a request that received files has returned,    *)
(* by a report, after a per-image failure, by the fatal-error response or  *)
(* by the rejection for a missing credential, no uploaded file and no      *)
(* preprocessed file of the request is left on disk.                       *)
C13_NoTemporaryFileLeft == HandlerReturned => disk = {}

\* validateExtractionQuality has returned from a direct call
ValidationReturned ==
  pc = "returned" /\ call.function = "validateExtractionQuality"

\* the number of subjects of the batch with a year level
InYear(subjects, year) ==
  Cardinality({i \in 1..Len(subjects) : subjects[i].yearLevel = year})

\* the batch meets the year minimums of its section
MeetsYearMinimums(subjects, section) ==
  IF section = 1
  THEN InYear(subjects, "1st Year") >= 12 /\ InYear(subjects, "2nd Year") >= 13
  ELSE InYear(subjects, "3rd Year") >= 11 /\ InYear(subjects, "4th Year") >= 9

\* the batch has an entity whose code is exactly CS 122
HasAnchor(subjects) == \E i \in 1..Len(subjects) : subjects[i].subjectCode = CS122

\* the messages of a list that open with piece
Opening(messages, piece) ==
  {i \in 1..Len(messages) : messages[i] # <<>> /\ messages[i][1] = piece}

(* C14: for section 1 (27-31) and section 2 (23-27), a count issue is      *)
(* appended exactly when the entity count is below the minimum and a count *)
(* warning, never an issue, exactly when it is above the maximum; a batch  *)
(* above the maximum that meets every year minimum and the anchor check    *)
(* has isGood = true.                                                      *)
C14_CountIssueAndWarning ==
  (ValidationReturned /\ call.imageNumber \in {1, 2}) =>
    LET n == Len(call.subjects)
        min == IF call.imageNumber = 1 THEN 27 ELSE 23
        max == IF call.imageNumber = 1 THEN 31 ELSE 27
    IN /\ (Opening(returned.issues, "Only ") # {}) <=> (n < min)
       /\ (Opening(returned.warnings, "Found ") # {}) <=> (n > max)
       /\ Opening(returned.issues, "Found ") = {}
       /\ Opening(returned.warnings, "Only ") = {}
       /\ Cardinality(Opening(returned.issues, "Only ")) <= 1
       /\ Cardinality(Opening(returned.warnings, "Found ")) <= 1
       /\ (/\ n > max
           /\ MeetsYearMinimums(call.subjects, call.imageNumber)
           /\ (call.imageNumber = 2 => HasAnchor(call.subjects)))
            => returned.isGood

\* a batch above the maximum of its section came back good, with the warning
C14_Witness ==
  /\ ValidationReturned
  /\ call.imageNumber = 2
  /\ Len(call.subjects) > 27
  /\ returned.isGood
  /\ Opening(returned.warnings, "Found ") # {}

\* the years a section requires, with their minimums
RequiredYears(section) ==
  IF section = 1 THEN {<<"1st Year", 12>>, <<"2nd Year", 13>>}
  ELSE IF section = 2 THEN {<<"3rd Year", 11>>, <<"4th Year", 9>>}
  ELSE {}

\* the years the issues of a list name as incomplete or missing
YearsReportedShort(issues) ==
  {issues[i][1] : i \in {j \in 1..Len(issues) :
                           /\ Len(issues[j]) = 2
                           /\ issues[j][2] = " incomplete or missing"}}

(* C15: a year issue is appended exactly for the required years of the     *)
(* section that fall short of their minimum (section 1: 12 of 1st Year, 13 *)
(* of 2nd Year; section 2: 11 of 3rd Year, 9 of 4th Year), a year with no  *)
(* entity counting as short; no other year is ever named, and each short   *)
(* year is named once.                                                     *)
C15_YearIssues ==
  ValidationReturned =>
    LET short == {req[1] : req \in {q \in RequiredYears(call.imageNumber) :
                                      InYear(call.subjects, q[1]) < q[2]}}
        named == {i \in 1..Len(returned.issues) :
                    /\ Len(returned.issues[i]) = 2
                    /\ returned.issues[i][2] = " incomplete or missing"}
    IN /\ YearsReportedShort(returned.issues) = short
       /\ Cardinality(named) = Cardinality(short)

\* section 2 with no 3rd Year entity at all, and with 1st Year entities
\* fewer than section 1 would require
C15_Witness ==
  /\ ValidationReturned
  /\ call.imageNumber = 2
  /\ InYear(call.subjects, "3rd Year") = 0
  /\ InYear(call.subjects, "1st Year") > 0
  /\ InYear(call.subjects, "1st Year") < 12
  /\ "3rd Year" \in YearsReportedShort(returned.issues)
  /\ "1st Year" \notin YearsReportedShort(returned.issues)

\* the term of the first entity whose code is exactly CS 122
AnchorTerm(subjects) ==
  LET at == {i \in 1..Len(subjects) : subjects[i].subjectCode = CS122}
      first == CHOOSE i \in at : \A j \in at : i <= j
  IN subjects[first].semester

SummerMissingIssue == <<"Summer semester missing (CS 122 - Practicum)">>

(* C16: in section 2 the issue naming CS 122 is appended exactly when no   *)
(* entity of the batch has code CS 122; when CS 122 is there with a term   *)
(* other than Summer a warning naming the found term is appended and no    *)
(* issue, so that a batch failing nothing else is good; in section 1, and  *)
(* for any other image number, neither the issue nor the warning appears.  *)
C16_AnchorCheck ==
  ValidationReturned =>
    LET section2 == call.imageNumber = 2
        present == HasAnchor(call.subjects)
        wrongTerm == present /\ AnchorTerm(call.subjects) # "Summer"
        n == Len(call.subjects)
    IN /\ Contains(returned.issues, SummerMissingIssue) <=> (section2 /\ ~present)
       /\ (returned.missingCourses = <<CS122>>) <=> (section2 /\ ~present)
       /\ (Opening(returned.warnings, "CS 122 in wrong semester (") # {})
            <=> (section2 /\ wrongTerm)
       /\ (section2 /\ wrongTerm) =>
            /\ Contains(returned.warnings,
                        <<"CS 122 in wrong semester (", AnchorTerm(call.subjects),
                          "), should be Summer">>)
            /\ Opening(returned.issues, "CS 122 in wrong semester (") = {}
            /\ (n >= 23 /\ MeetsYearMinimums(call.subjects, 2)) => returned.isGood

\* section 2 with CS 122 placed in the 1st Semester: warned about, and good
C16_Witness ==
  /\ ValidationReturned
  /\ call.imageNumber = 2
  /\ HasAnchor(call.subjects)
  /\ AnchorTerm(call.subjects) = "1st Semester"
  /\ returned.isGood
  /\ Len(returned.warnings) = 1

\* the message the status of a recognizer error calls for
StatusMessage(error) ==
  CASE error.status = 429 ->
         "Rate limited. Wait 1 minute and try again (max 30 req/min)."
    [] error.status = 401 -> "Invalid API key. Check your .env file."
    [] OTHER -> error.message

(* C17: a recognizer call that fails with a transport status surfaces the  *)
(* message of that status (429: rate limited, 401: invalid API key, any    *)
(* other: the error's own message), in the error response of a             *)
(* single-image endpoint and in the issue recorded for a failed image of   *)
(* a curriculum scan.                                                      *)
C17_StatusMessageEverywhere ==
  /\ (pc = "answered" /\ replies # <<>> /\ replies[1].kind = "error")
       => sent[1].error = StatusMessage(replies[1])
  /\ LoopDone =>
       \A k \in FailedImages :
         imageResults[k].validation.issues = <<<<StatusMessage(replies[k])>>>>

\* sendToGroq has returned or thrown in a direct call
DecodeReturned == pc = "returned" /\ call.function = "sendToGroq"

\* the content of the first fenced block of a text, if it has one
FirstFencedBlock(text) ==
  LET fences == PositionsOf(Fence, text)
      open == Least(fences)
      close == Least(fences \ {open})
      inner == SubSeq(text, open + 1, close - 1)
  IN IF Cardinality(fences) < 2 THEN <<>>
     ELSE <<trim(IF inner # <<>> /\ inner[1] = "json" THEN Tail(inner) ELSE inner)>>

\* the text from the first "{" to the last "}", if there is one
BraceSpan(text) ==
  LET opens == PositionsOf("{", text)
      closes == PositionsOf("}", text)
  IN IF opens = {} \/ closes = {} \/ Least(opens) > Greatest(closes) THEN <<>>
     ELSE <<SubSeq(text, Least(opens), Greatest(closes))>>

\* the texts to decode, in the order they are tried
DecodeCandidates(text) == <<text>> \o FirstFencedBlock(text) \o BraceSpan(text)

(* C18: sendToGroq returns the decode of the first of the whole text, the  *)
(* content of the first fenced block and the text from the first "{" to    *)
(* the last "}" that decodes, and when none of them decodes it fails with  *)
(* the error "Could not parse AI response as JSON".                        *)
C18_TolerantDecode ==
  DecodeReturned =>
    LET tried == DecodeCandidates(call.text)
        decodable == {i \in 1..Len(tried) : JsonParses(trim(tried[i]))}
    IN IF decodable # {}
       THEN /\ ~returned.threw
            /\ returned.value = JsonValue(trim(tried[Least(decodable)]))
       ELSE /\ returned.threw
            /\ returned.message = "Could not parse AI response as JSON"

(* C19, as claimed: whenever the overall validation reports success =      *)
(* true its issues list is empty.                                          *)
C19_SuccessMeansNoIssues ==
  Reported => (overallValidation.success => overallValidation.issues = <<>>)

\* the issues the checks that follow the tier computation append
IsCompletenessIssue(issue) ==
  \/ issue = <<"Summer semester missing (CS 122)">>
  \/ /\ Len(issue) = 2
     /\ issue[2] = " completely missing"
     /\ \E y \in 1..Len(YearLevels) : issue[1] = YearLevels[y]

(* C19, amended: whenever the overall validation reports success = true,   *)
(* its issues list holds no shortfall issue, only year-missing and         *)
(* Summer-missing ones, and it is empty when a single image was submitted. *)
C19_SuccessMeansNoShortfallIssue ==
  (Reported /\ overallValidation.success) =>
    /\ \A i \in 1..Len(overallValidation.issues) :
         IsCompletenessIssue(overallValidation.issues[i])
    /\ Opening(overallValidation.issues, "Only ") = {}
    /\ Opening(overallValidation.issues, "Very poor extraction: only ") = {}
    /\ Len(imageResults) = 1 => overallValidation.issues = <<>>

\* two images, 53 subjects, success, and the Summer issue
C19_Witness ==
  /\ Reported
  /\ Len(imageResults) = 2
  /\ overallValidation.success
  /\ overallValidation.quality = "good"
  /\ overallValidation.issues = <<<<"Summer semester missing (CS 122)">>>>

(* C20, as claimed: whenever the scan is of tier Excellent, the list of    *)
(* missing codes is empty.                                                 *)
C20_ExcellentMeansComplete ==
  Reported =>
    (overallValidation.quality = "excellent" => overallValidation.missingCourses = <<>>)

\* every deduplicated entity carries the code of a catalog entry
AllCodesInCatalog ==
  \A i \in 1..Len(uniqueSubjects) :
    \E n \in 1..CatalogSize : uniqueSubjects[i].subjectCode = CURRICULUM_REFERENCE[n].key

(* C20, amended: whenever the scan is of tier Excellent and every          *)
(* deduplicated entity carries a catalog code, the list of missing codes   *)
(* is empty; and the tier is Excellent exactly when the deduplicated count *)
(* is at least 54, whatever codes the entities carry.                      *)
C20_ExcellentCountsEntities ==
  Reported =>
    /\ (overallValidation.quality = "excellent") <=> (Len(uniqueSubjects) >= 54)
    /\ (overallValidation.quality = "excellent" /\ AllCodesInCatalog)
         => overallValidation.missingCourses = <<>>

\* 54 entities, each with a catalog code: Excellent and nothing missing
C20_Witness ==
  /\ Reported
  /\ overallValidation.quality = "excellent"
  /\ AllCodesInCatalog
  /\ Len(uniqueSubjects) = 54
  /\ overallValidation.missingCourses = <<>>

\* the curriculum report has been sent
ReportSent == LoopDone /\ Len(sent) = 1 /\ sent[1].status = 200

(* C21: every image result of the curriculum report has a validation, not  *)
(* null, whose subjectCount is the number of entities the image added to   *)
(* the merge, also when the reply decoded to something without a subjects  *)
(* array.                                                                  *)
C21_EveryImageValidated ==
  ReportSent =>
    /\ Len(sent[1].imageResults) = files
    /\ \A k \in 1..Len(sent[1].imageResults) :
         /\ sent[1].imageResults[k].validation # NULL
         /\ sent[1].imageResults[k].validation.subjectCount = Len(Contribution(k))
    /\ allSubjects = ContributionsUpTo(files)

(* C22: in a curriculum scan, where validation runs on hydrated entities,  *)
(* every entity of an image whose code is exactly CS 122 has term Summer,  *)
(* whatever term the recognizer gave it, and no image's validation carries *)
(* the warning about CS 122 in the wrong semester.                         *)
C22_NoWrongSemesterWarning ==
  \A k \in 1..Len(imageResults) :
    /\ \A i \in 1..Len(imageResults[k].subjects) :
         imageResults[k].subjects[i].subjectCode = CS122
           => imageResults[k].subjects[i].semester = "Summer"
    /\ imageResults[k].validation # NULL
         => Opening(imageResults[k].validation.warnings, "CS 122 in wrong semester (") = {}

\* the second image came back with CS 122 in another spelling and in the
\* 2nd Semester, and was validated with CS 122 found
C22_Witness ==
  /\ Len(imageResults) = 2
  /\ replies[2].kind = "subjects"
  /\ \E i \in 1..Len(HydrationInput(2)) :
       /\ NormalizedKey(HydrationInput(2)[i].subjectCode) = NormalizedKey(CS122)
       /\ HydrationInput(2)[i].subjectCode # CS122
       /\ HydrationInput(2)[i].semester = "2nd Semester"
       /\ imageResults[2].subjects[i].subjectCode = CS122
       /\ imageResults[2].subjects[i].semester = "Summer"
  /\ ~Contains(imageResults[2].validation.issues, SummerMissingIssue)
  /\ imageResults[2].validation.warnings = <<>>

\* the normalized keys of the catalog's entries of the given year levels
YearCodes(years) ==
  {NormalizedKey(CURRICULUM_REFERENCE[n].key) :
     n \in {m \in 1..CatalogSize : CURRICULUM_REFERENCE[m].yearLevel \in years}}

\* the reply to image k carried each catalog code of the given year levels
\* once, in some spelling, and nothing else
ExactlyTheCodes(k, years) ==
  /\ replies[k].kind = "subjects"
  /\ Len(imageResults[k].subjects) = Cardinality(YearCodes(years))
  /\ {NormalizedKey(HydrationInput(k)[i].subjectCode) :
        i \in 1..Len(HydrationInput(k))} = YearCodes(years)

\* both sheets of the checklist were read completely
PerfectScan ==
  /\ files = 2
  /\ Len(imageResults) = 2
  /\ ExactlyTheCodes(1, {"1st Year", "2nd Year"})
  /\ ExactlyTheCodes(2, {"3rd Year", "4th Year"})

(* C23: when image 1 yields exactly the catalog's 1st Year and 2nd Year    *)
(* codes and image 2 exactly its 3rd Year codes, CS 122 of the Summer      *)
(* term among them, and its 4th Year codes, in whatever spelling of case   *)
(* and spacing, both per-image validations are good and have no issues,    *)
(* and the report sent has 54 subjects, quality excellent, success true,   *)
(* no issues and no missing courses.                                       *)
C23_PerfectScanAccepted ==
  PerfectScan =>
    /\ \A k \in 1..2 :
         /\ imageResults[k].validation # NULL
         /\ imageResults[k].validation.isGood
         /\ imageResults[k].validation.issues = <<>>
    /\ pc = "done" =>
         /\ Len(sent) = 1
         /\ sent[1].status = 200
         /\ sent[1].success
         /\ sent[1].quality = "excellent"
         /\ Len(sent[1].subjects) = CatalogSize
         /\ CatalogSize = 54
         /\ sent[1].validation.totalCount = 54
         /\ sent[1].validation.issues = <<>>
         /\ sent[1].validation.missingCourses = <<>>

\* a perfect scan was reported whose first sheet came back in lower case
\* without spaces and whose second sheet in upper case with wide spacing
C23_Witness ==
  /\ PerfectScan
  /\ pc = "done"
  /\ sent[1].quality = "excellent"
  /\ \A i \in 1..Len(HydrationInput(1)) :
       /\ HydrationInput(1)[i].subjectCode = toLowerCase(HydrationInput(1)[i].subjectCode)
       /\ \A c \in Whitespace : ~Contains(HydrationInput(1)[i].subjectCode, c)
  /\ \A i \in 1..Len(ParsedSubjects(replies[2], 2)) :
       /\ ParsedSubjects(replies[2], 2)[i].subjectCode
            = toUpperCase(ParsedSubjects(replies[2], 2)[i].subjectCode)
       /\ Contains(ParsedSubjects(replies[2], 2)[i].subjectCode, "\t")
  /\ \E i \in 1..Len(imageResults[2].subjects) :
       /\ imageResults[2].subjects[i].subjectCode = CS122
       /\ imageResults[2].subjects[i].semester = "Summer"

====
